---- MODULE Spec2Model ----
(***************************************************************************)
(* Model of the Sahara protocol client in src/src/protocol.rs: the bounded *)
(* interface claim of connect(), the device-initiated hello(), and the     *)
(* request/response operations switch_mode, exec, info, read_mem, reset    *)
(* and end, over a transport whose transfers may time out or fail.         *)
(* Every usb_send / usb_read call is one step of the model; the device is  *)
(* adversarial and answers each read with any packet of DeviceReplies.     *)
(***************************************************************************)
EXTENDS Integers, Sequences, FiniteSets, TLC

VARIABLES
    pc,            \* control position of the host program
    elapsed,       \* claim_interface: Instant::now() - now, in microseconds
    attempts,      \* claim_interface: d.claim_interface(ii) calls made
    claimRet,      \* claim_interface: "none", "Ok" or "Err"
    op,            \* the public operation in progress, or "none"
    version,       \* the `version` argument of the operation in progress
    arg,           \* the `mode` of switch_mode / the `address` of read_mem
    cmd,           \* exec: the `command` argument (as u32)
    buf,           \* the Vec<u8> the last usb_read_n returned
    got,           \* comp.data.len() of the last bulk-IN, -1 when it failed
    log,           \* the transfers of the operation in progress, in order
    recent,        \* directions of the last two bulk transfers of the session
    firstFail,     \* outcome of the first failed transfer of the operation
    afterFail,     \* whether the operation issued a transfer after a failed one
    helloReq,      \* the HelloRequest hello() decoded
    helloRet,      \* the value hello() returned
    sm,            \* the last switch_mode call: reply type, status, return
    execRet,       \* the Result the last exec call returned
    out,           \* lines the operation printed or logged, in order
    ret,           \* how the last public operation ended
    panicMsg,      \* the message of the panic that ended the process
    opsDone,       \* public operations completed after hello
    codec          \* a packet on its way through as_bytes and read_from_prefix

vars == <<pc, elapsed, attempts, claimRet, op, version, arg, cmd, buf, got,
          log, recent, firstFail, afterFail, helloReq, helloRet, sm, execRet,
          out, ret, panicMsg, opsDone, codec>>

(***************************************************************************)
(* Bounds of the model.                                                    *)
(***************************************************************************)
MaxOps == 2                 \* public operations called after hello
MaxOvershoot == 400000      \* longest oversleep of thread::sleep, microseconds

(***************************************************************************)
(* Program constants.                                                      *)
(***************************************************************************)
CLAIM_INTERFACE_TIMEOUT == 1000000
CLAIM_INTERFACE_PERIOD == 200

SAHARA_HELLO_REQUEST == 1
SAHARA_HELLO_RESPONSE == 2
SAHARA_END_OF_TRANSFER == 4
SAHARA_DONE_REQUEST == 5
SAHARA_DONE_RESPONSE == 6
SAHARA_RESET_REQUEST == 7
SAHARA_RESET_RESPONSE == 8
SAHARA_MEMORY_READ == 10
SAHARA_READY == 11
SAHARA_EXECUTE_REQUEST == 13
SAHARA_EXECUTE_RESPONSE == 14
SAHARA_EXECUTE_DATA == 15

ModeImageTxPending == 0
ModeMemoryDebug == 2
ModeCommand == 3

GetSerialNum == 1
GetHardwareId == 2
GetOemPkHash == 3

TRANSFER_SIZE == 1024
HELLO_RESPONSE_SIZE == 48
RESET_REQUEST_SIZE == 8
DONE_REQUEST_SIZE == 8
EXEC_SIZE == 12
MEMORY_READ_SIZE == 16
MemReadLen == 16            \* `let size = 0x10` of read_mem

(***************************************************************************)
(* Codec: #[repr(C, packed)] structs through zerocopy, little-endian.      *)
(***************************************************************************)
\* A u32 laid out most significant byte first.
U32BytesBigEndian(x) ==
    <<(x \div 16777216) % 256, (x \div 65536) % 256, (x \div 256) % 256, x % 256>>

U32Bytes(x) ==
    <<x % 256, (x \div 256) % 256, (x \div 65536) % 256, (x \div 16777216) % 256>>

Zeros(n) == [k \in 1..n |-> 0]

PacketHeaderBytes(mt, length) == U32Bytes(mt) \o U32Bytes(length)

HelloRequestBytes(v, compatible, maxLen, mode) ==
    PacketHeaderBytes(SAHARA_HELLO_REQUEST, 24)
        \o U32Bytes(v) \o U32Bytes(compatible) \o U32Bytes(maxLen) \o U32Bytes(mode)

\* HelloResponse without its `rest` words (0x18 bytes under a 0x30 header).
HelloResponseBytesNoRest(v, mode) ==
    PacketHeaderBytes(SAHARA_HELLO_RESPONSE, HELLO_RESPONSE_SIZE)
        \o U32Bytes(v) \o U32Bytes(1) \o U32Bytes(0) \o U32Bytes(mode)

HelloResponseBytes(v, mode) ==
    PacketHeaderBytes(SAHARA_HELLO_RESPONSE, HELLO_RESPONSE_SIZE)
        \o U32Bytes(v) \o U32Bytes(1) \o U32Bytes(0) \o U32Bytes(mode) \o Zeros(24)

ExecBytes(mt, command) == PacketHeaderBytes(mt, EXEC_SIZE) \o U32Bytes(command)

MemoryRead32Bytes(address, size) ==
    PacketHeaderBytes(SAHARA_MEMORY_READ, MEMORY_READ_SIZE)
        \o U32Bytes(address) \o U32Bytes(size)

ResetRequestBytes == PacketHeaderBytes(SAHARA_RESET_REQUEST, RESET_REQUEST_SIZE)

DoneRequestBytes == PacketHeaderBytes(SAHARA_DONE_REQUEST, DONE_REQUEST_SIZE)

EndOfTransferBytes(image, status) ==
    PacketHeaderBytes(SAHARA_END_OF_TRANSFER, 16) \o U32Bytes(image) \o U32Bytes(status)

\* The Vec<u8> of usb_read_n is vec![0; size] with its first n bytes
\* overwritten by the bytes received; it is kept as [size, data], data being
\* the bytes received.  Byte `off` (0-based, off < size) of it:
ByteAt(b, off) == IF off < Len(b.data) THEN b.data[off + 1] ELSE 0

\* u32 field at byte offset `off` (read_from_prefix on a packed struct).
U32At(b, off) ==
    ByteAt(b, off) + 256 * ByteAt(b, off + 1) + 65536 * ByteAt(b, off + 2)
        + 16777216 * ByteAt(b, off + 3)

U16At(b, off) == ByteAt(b, off) + 256 * ByteAt(b, off + 1)

Slice(b, off, n) == [k \in 1..n |-> ByteAt(b, off + k - 1)]

HeaderType(b) == U32At(b, 0)
HeaderLength(b) == U32At(b, 4)
EotStatus(b) == U32At(b, 12)

(***************************************************************************)
(* The device and the transport.                                           *)
(***************************************************************************)
\* How one bulk transfer ends: completed, the 5-second timer won the race,
\* or the completion carried an error status.
Outcomes == {"ok", "timeout", "error"}

Versions == {2, 3}
Modes == {ModeImageTxPending, ModeMemoryDebug, ModeCommand}
Addresses == {4096, 65536}

SerialPayload == <<222, 173, 190, 239, 0, 17, 34, 51>>
HwIdPayload == <<52, 18, 120, 86, 225, 80, 10, 0>>
MemPayload == <<4, 0, 0, 0, 170, 187, 204, 93, 1, 2, 3, 4, 9, 0, 0, 0>>
ShortPayload == <<1, 2, 3, 4>>

\* What the device may answer a bulk-IN with where the host decodes a packet
\* header (every u32 of these is below 2^31, the integers TLC computes with).
DeviceReplies ==
    { HelloRequestBytes(2, 1, TRANSFER_SIZE, ModeImageTxPending),
      HelloRequestBytes(3, 1, TRANSFER_SIZE, ModeCommand),
      PacketHeaderBytes(SAHARA_READY, 8),
      PacketHeaderBytes(SAHARA_READY, 48),
      EndOfTransferBytes(1, 6),
      PacketHeaderBytes(SAHARA_EXECUTE_RESPONSE, 16) \o U32Bytes(1) \o U32Bytes(8),
      PacketHeaderBytes(SAHARA_RESET_RESPONSE, 8),
      PacketHeaderBytes(SAHARA_DONE_RESPONSE, 12) \o U32Bytes(0),
      MemPayload, ShortPayload }

\* What the device may answer the payload read of info() with; the payload is
\* decoded as bytes, u16 and the u32 at offset 4.
PayloadReplies ==
    {SerialPayload, HwIdPayload, ShortPayload, EndOfTransferBytes(1, 6)}

\* usb_read_n: the buffer returned; the Result of the transfer is dropped.
UsbReadN(size, st, data) ==
    [size |-> size, data |-> IF st = "ok" THEN data ELSE <<>>]

\* comp.data.len() of a completed bulk-IN, -1 for a failed one.
Received(st, data) == IF st = "ok" THEN Len(data) ELSE -1

\* Bookkeeping of one transfer: the first failure of the operation, and the
\* whether a transfer was issued after it.
Track(st) ==
    /\ firstFail' = IF firstFail = "none" /\ st # "ok" THEN st ELSE firstFail
    /\ afterFail' = (afterFail \/ firstFail # "none")

\* The directions of the last two transfers, after one more in direction d.
LastTwo(r, d) == IF r = <<>> THEN <<d>> ELSE <<r[Len(r)], d>>

\* usb_send(i, e_out_addr, bytes)
Send(bytes, st) ==
    /\ log' = Append(log, [dir |-> "w", bytes |-> bytes, size |-> Len(bytes)])
    /\ recent' = LastTwo(recent, "w")
    /\ Track(st)

\* usb_read_n(i, e_in_addr, size)
Read(size, st, data) ==
    /\ buf' = UsbReadN(size, st, data)
    /\ got' = Received(st, data)
    /\ log' = Append(log, [dir |-> "r", bytes |-> UsbReadN(size, st, data).data,
                            size |-> size])
    /\ recent' = LastTwo(recent, "r")
    /\ Track(st)

Panic(msg) ==
    /\ pc' = "panicked"
    /\ panicMsg' = msg
    /\ ret' = "panic"

NoBuf == [size |-> 0, data |-> <<>>]
NoSm == [mt |-> -1, status |-> -1, ret |-> "none"]
NoHello == [mt |-> -1, version |-> -1, mode |-> -1]
NoRet == [none |-> TRUE]
NoCodec == [stage |-> "none", p |-> <<>>, bytes |-> <<>>, decoded |-> <<>>]

\* The process before connect() is called.
ProgramStart ==
    /\ pc = "connect"
    /\ elapsed = 0
    /\ attempts = 0
    /\ claimRet = "none"
    /\ op = "none"
    /\ version = 0
    /\ arg = 0
    /\ cmd = 0
    /\ buf = NoBuf
    /\ got = -1
    /\ log = <<>>
    /\ recent = <<>>
    /\ firstFail = "none"
    /\ afterFail = FALSE
    /\ helloReq = NoHello
    /\ helloRet = NoRet
    /\ sm = NoSm
    /\ execRet = [ok |-> TRUE, kind |-> "none", val |-> 0]
    /\ out = <<>>
    /\ ret = "none"
    /\ panicMsg = "none"
    /\ opsDone = 0

Init ==
    /\ ProgramStart
    /\ codec = NoCodec

sessionVars == <<op, version, arg, cmd, buf, got, log, recent, firstFail, afterFail,
                 helloReq, helloRet, sm, execRet, opsDone>>

protoVars == <<op, version, arg, cmd, buf, got, log, recent, firstFail, afterFail,
               helloReq, helloRet, sm, execRet, out, opsDone>>

(***************************************************************************)
(* The packet structs by themselves: as_bytes then read_from_prefix.       *)
(* A u64 field is held as <<low, high>> 32-bit halves.                     *)
(***************************************************************************)
PacketTypes ==
    {"HelloRequest", "HelloResponse", "ResetRequest", "DoneRequest",
     "ReadRequest32", "ReadRequest64", "EndOfTransfer", "DoneResponse",
     "Exec", "MemoryRead32"}

\* Widths in bytes of the fields that follow `header`, in declaration order.
FieldWidths(t) ==
    CASE t = "HelloRequest" -> <<4, 4, 4, 4>>
      [] t = "HelloResponse" -> <<4, 4, 4, 4, 4, 4, 4, 4, 4, 4>>
      [] t = "ResetRequest" -> <<>>
      [] t = "DoneRequest" -> <<>>
      [] t = "ReadRequest32" -> <<4, 4, 4>>
      [] t = "ReadRequest64" -> <<8, 8, 8>>
      [] t = "EndOfTransfer" -> <<4, 4>>
      [] t = "DoneResponse" -> <<4>>
      [] t = "Exec" -> <<4>>
      [] t = "MemoryRead32" -> <<4, 4>>

U32Values == {0, 1, 258, 16909060, 2147483647}
U32ValuesFew == {0, 16909060}
U64Values == {<<0, 0>>, <<16909060, 84281096>>, <<2147483647, 1>>}

FieldValues(t) ==
    IF t = "ReadRequest64" THEN U64Values
    ELSE IF t = "HelloResponse" THEN U32ValuesFew
    ELSE U32Values

\* The field tuples of packet type t over the bounded values.
FieldTuples(t) == [1..Len(FieldWidths(t)) -> FieldValues(t)]

EncodeField(w, x) ==
    IF w = 4 THEN U32Bytes(x) ELSE U32Bytes(x[1]) \o U32Bytes(x[2])

DecodeField(b, off, w) ==
    IF w = 4 THEN U32At(b, off) ELSE <<U32At(b, off), U32At(b, off + 4)>>

RECURSIVE EncodeFields(_, _)
EncodeFields(ws, xs) ==
    IF ws = <<>> THEN <<>>
    ELSE EncodeField(Head(ws), Head(xs)) \o EncodeFields(Tail(ws), Tail(xs))

\* Byte offset of field i: the header, then the fields before it, unpadded.
RECURSIVE FieldOffset(_, _)
FieldOffset(ws, i) ==
    IF i = 1 THEN 8 ELSE FieldOffset(ws, i - 1) + ws[i - 1]

\* IntoBytes::as_bytes
EncodePacket(p) ==
    PacketHeaderBytes(p.header.message_type, p.header.length)
        \o EncodeFields(FieldWidths(p.type), p.fields)

\* FromBytes::read_from_prefix
DecodePacket(t, b) ==
    [type |-> t,
     header |-> [message_type |-> HeaderType(b), length |-> HeaderLength(b)],
     fields |-> [i \in 1..Len(FieldWidths(t)) |->
                    DecodeField(b, FieldOffset(FieldWidths(t), i), FieldWidths(t)[i])]]

programVars == <<pc, elapsed, attempts, claimRet, op, version, arg, cmd, buf, got,
                 log, recent, firstFail, afterFail, helloReq, helloRet, sm,
                 execRet, out, ret, panicMsg, opsDone>>

CodecInit ==
    /\ ProgramStart
    /\ \E t \in PacketTypes, m \in U32Values, l \in U32Values :
         \E f \in FieldTuples(t) :
            codec = [stage |-> "packet",
                     p |-> [type |-> t,
                            header |-> [message_type |-> m, length |-> l],
                            fields |-> f],
                     bytes |-> <<>>, decoded |-> <<>>]

CodecEncode ==
    /\ codec.stage = "packet"
    /\ codec' = [codec EXCEPT !.stage = "encoded", !.bytes = EncodePacket(codec.p)]
    /\ UNCHANGED programVars

CodecDecode ==
    /\ codec.stage = "encoded"
    /\ codec' = [codec EXCEPT
                    !.stage = "decoded",
                    !.decoded = DecodePacket(codec.p.type,
                                    [size |-> Len(codec.bytes), data |-> codec.bytes])]
    /\ UNCHANGED programVars

CodecNext == CodecEncode \/ CodecDecode

CodecSpec == CodecInit /\ [][CodecNext]_vars

(***************************************************************************)
(* connect() and claim_interface().                                        *)
(***************************************************************************)
\* connect(): find the device, open it, enter claim_interface
\* (`let now = Instant::now()`).
ConnectOutcomes ==
    {"list_err", "not_found", "no_product", "no_interface", "open_err", "found"}

\* The panic connect() ends with before it claims the interface.
ConnectPanic(o) ==
    CASE o = "list_err" -> "called Result::unwrap() on an Err value"
      [] o = "not_found" -> "Device not found, is it connected and in the right mode?"
      [] o = "no_product" -> "called Option::unwrap() on a None value"
      [] o = "no_interface" -> "called Option::unwrap() on a None value"
      [] o = "open_err" -> "called Result::unwrap() on an Err value"

Connect ==
    /\ pc = "connect"
    /\ \E o \in ConnectOutcomes :
         /\ out' = IF o \in {"no_interface", "open_err", "found"}
                   THEN Append(out, [kind |-> "Found", val |-> 0])
                   ELSE out
         /\ IF o = "found"
            THEN /\ pc' = "claim_check"
                 /\ elapsed' = 0
                 /\ UNCHANGED <<ret, panicMsg>>
            ELSE /\ Panic(ConnectPanic(o))
                 /\ UNCHANGED elapsed
    /\ UNCHANGED <<attempts, claimRet>>
    /\ UNCHANGED sessionVars
    /\ UNCHANGED codec
    /\ UNCHANGED codec

\* The loop condition `Instant::now() <= now + CLAIM_INTERFACE_TIMEOUT`.
ClaimDeadlineOpen == elapsed <= CLAIM_INTERFACE_TIMEOUT

\* One evaluation of the while condition; past the deadline the function
\* returns Err("failure claiming USB interface").
ClaimCheck ==
    /\ pc = "claim_check"
    /\ IF ClaimDeadlineOpen
       THEN pc' = "claim_try" /\ UNCHANGED claimRet
       ELSE pc' = "claim_ret" /\ claimRet' = "Err"
    /\ UNCHANGED <<elapsed, attempts, ret, panicMsg>>
    /\ UNCHANGED protoVars
    /\ UNCHANGED codec

\* One d.claim_interface(ii): Ok returns the interface, Err sleeps
\* CLAIM_INTERFACE_PERIOD (thread::sleep may oversleep).
ClaimTry ==
    /\ pc = "claim_try"
    /\ attempts' = attempts + 1
    /\ \E ok \in BOOLEAN, over \in {0, MaxOvershoot} :
         IF ok
         THEN /\ claimRet' = "Ok"
              /\ pc' = "claim_ret"
              /\ UNCHANGED elapsed
         ELSE /\ elapsed' = elapsed + CLAIM_INTERFACE_PERIOD + over
              /\ pc' = "claim_check"
              /\ UNCHANGED claimRet
    /\ UNCHANGED <<ret, panicMsg>>
    /\ UNCHANGED protoVars
    /\ UNCHANGED codec

\* connect(): `claim_interface(&d, ii).unwrap()`, then the endpoints; the
\* caller goes on to hello().  The locals of claim_interface are gone.
ConnectRestOutcomes ==
    {"no_speed", "unknown_speed", "no_configuration", "no_alt_setting",
     "no_out_endpoint", "no_in_endpoint", "ok"}

\* The panic connect() ends with after it claimed the interface.
ConnectRestPanic(o) ==
    IF o = "unknown_speed" THEN "Unknown USB device speed"
    ELSE "called Option::unwrap() on a None value"

ConnectUnwrap ==
    /\ pc = "claim_ret"
    /\ IF claimRet = "Ok"
       THEN \E o \in ConnectRestOutcomes :
               IF o = "ok"
               THEN pc' = "hello" /\ UNCHANGED <<ret, panicMsg>>
               ELSE Panic(ConnectRestPanic(o))
       ELSE Panic("failure claiming USB interface")
    /\ elapsed' = 0
    /\ attempts' = 0
    /\ UNCHANGED claimRet
    /\ UNCHANGED protoVars
    /\ UNCHANGED codec

\* What no protocol operation touches.
claimVars == <<elapsed, attempts, claimRet, codec>>

(***************************************************************************)
(* hello()                                                                 *)
(***************************************************************************)
\* What hello() returns from the decoded HelloRequest: the fields of the
\* request handed to the caller (`req.mode`, a u32).
HelloReturn(req) == [mode |-> req.mode]

\* hello() comparing against the wrong message type.
HelloAcceptsResponse(mt) == mt = SAHARA_HELLO_RESPONSE

\* Whether hello() accepts the first packet (the assert_eq!).
HelloAccepts(mt) == mt = SAHARA_HELLO_REQUEST

Hello ==
    /\ pc = "hello"
    /\ \E st \in Outcomes, data \in DeviceReplies :
         /\ Len(data) <= TRANSFER_SIZE
         /\ Read(TRANSFER_SIZE, st, data)
         /\ LET b == UsbReadN(TRANSFER_SIZE, st, data)
                req == [mt |-> HeaderType(b), version |-> U32At(b, 8),
                        mode |-> U32At(b, 20)]
            IN /\ helloReq' = req
               /\ out' = Append(out, [kind |-> "Hello request",
                                      val |-> [k \in 1..6 |-> U32At(b, 4 * (k - 1))]])
               /\ IF HelloAccepts(req.mt)
                  THEN /\ helloRet' = HelloReturn(req)
                       /\ pc' = "idle"
                       /\ ret' = "Ok"
                       /\ UNCHANGED panicMsg
                  ELSE /\ Panic("assertion left == right failed")
                       /\ UNCHANGED helloRet
    /\ op' = "hello"
    /\ UNCHANGED <<version, arg, cmd, sm, execRet, opsDone>>
    /\ UNCHANGED claimVars

(***************************************************************************)
(* The caller: after hello() it calls public operations, one at a time.    *)
(***************************************************************************)
ExecNone == [ok |-> TRUE, kind |-> "none", val |-> 0]

\* Entry of a public operation: fresh locals.
Enter(o, v, a) ==
    /\ pc = "idle"
    /\ opsDone < MaxOps
    /\ op' = o
    /\ version' = v
    /\ arg' = a
    /\ buf' = NoBuf
    /\ got' = -1
    /\ log' = <<>>
    /\ firstFail' = "none"
    /\ afterFail' = FALSE
    /\ sm' = NoSm
    /\ execRet' = ExecNone
    /\ out' = <<>>
    /\ ret' = "none"
    /\ UNCHANGED <<recent, helloReq, helloRet, panicMsg, opsDone>>
    /\ UNCHANGED claimVars

\* Normal return of a public operation to its caller.
Return ==
    /\ pc' = "idle"
    /\ ret' = "Ok"
    /\ opsDone' = opsDone + 1
    /\ UNCHANGED panicMsg

CallSwitchMode ==
    \E v \in Versions, m \in Modes :
        /\ Enter("switch_mode", v, m)
        /\ pc' = "sm_send"
        /\ UNCHANGED cmd

\* info(): the first command it executes.
InfoFirst == GetSerialNum

CallInfo ==
    \E v \in Versions :
        /\ Enter("info", v, 0)
        /\ pc' = "exec_req"
        /\ cmd' = InfoFirst

CallReadMem ==
    \E v \in Versions, a \in Addresses :
        /\ Enter("read_mem", v, a)
        /\ pc' = "sm_send"
        /\ UNCHANGED cmd

CallReset ==
    /\ Enter("reset", 0, 0)
    /\ pc' = "reset_send"
    /\ UNCHANGED cmd

CallEnd ==
    \E v \in Versions :
        /\ Enter("end", v, 0)
        /\ pc' = "sm_send"
        /\ UNCHANGED cmd

(***************************************************************************)
(* main.rs: the program `qc_boot`, with its own hello() and info().        *)
(***************************************************************************)
COMMAND_HELLO == 2
COMMAND_END_OF_TRANSFER == 4
COMMAND_READY == 11
COMMAND_EXECUTE_REQUEST == 13
COMMAND_EXECUTE_RESPONSE == 14
COMMAND_EXECUTE_DATA == 15
MODE_COMMAND == 3
EXEC_SERIAL_NUM_READ == 1
EXEC_MSM_HW_ID_READ == 2
MainTransferSize == 4096

MainCommands == {"Info", "Load", "Run"}

\* main.rs info(): HelloResponse{version 2, compatible 1, status 0, mode 3}
\* followed by the words 1..6.
MainHelloResponseBytes ==
    PacketHeaderBytes(COMMAND_HELLO, 48)
        \o U32Bytes(2) \o U32Bytes(1) \o U32Bytes(0) \o U32Bytes(MODE_COMMAND)
        \o U32Bytes(1) \o U32Bytes(2) \o U32Bytes(3) \o U32Bytes(4)
        \o U32Bytes(5) \o U32Bytes(6)

\* main.rs hello(): one read, decoded as HelloRequest, nothing checked and
\* nothing returned.
MainHello ==
    /\ pc = "hello"
    /\ \E st \in Outcomes, data \in DeviceReplies :
         /\ Len(data) <= MainTransferSize
         /\ Read(MainTransferSize, st, data)
         /\ LET b == UsbReadN(MainTransferSize, st, data)
            IN helloReq' = [mt |-> HeaderType(b), version |-> U32At(b, 8),
                            mode |-> U32At(b, 20)]
    /\ op' = "main_hello"
    /\ pc' = "main_match"
    /\ UNCHANGED <<version, arg, cmd, helloRet, sm, execRet, out, ret, panicMsg, opsDone>>
    /\ UNCHANGED claimVars

\* main(): `match cmd`; only Info does anything.
MainMatch ==
    /\ pc = "main_match"
    /\ \E c \in MainCommands :
         IF c = "Info"
         THEN /\ op' = "main_info"
              /\ pc' = "main_hello_response"
              /\ buf' = NoBuf
              /\ got' = -1
              /\ log' = <<>>
              /\ firstFail' = "none"
              /\ afterFail' = FALSE
              /\ UNCHANGED ret
         ELSE /\ pc' = "exited"
              /\ ret' = "Ok"
              /\ UNCHANGED <<op, buf, got, log, firstFail, afterFail>>
    /\ UNCHANGED <<version, arg, cmd, recent, helloReq, helloRet, sm, execRet, out,
                   panicMsg, opsDone>>
    /\ UNCHANGED claimVars

MainInfoSendHelloResponse ==
    /\ pc = "main_hello_response"
    /\ \E st \in Outcomes : Send(MainHelloResponseBytes, st)
    /\ pc' = "main_ready"
    /\ UNCHANGED <<op, version, arg, cmd, buf, got, helloReq, helloRet, sm, execRet,
                   out, ret, panicMsg, opsDone>>
    /\ UNCHANGED claimVars

\* main.rs info(): the panic for a reply to HelloResponse, "none" for READY.
MainReadyPanic(mt) ==
    CASE mt = COMMAND_READY -> "none"
      [] mt = COMMAND_END_OF_TRANSFER -> "EndOfTransfer"
      [] OTHER -> "..."

MainInfoReadReady ==
    /\ pc = "main_ready"
    /\ \E st \in Outcomes, data \in DeviceReplies :
         /\ Len(data) <= MainTransferSize
         /\ Read(MainTransferSize, st, data)
         /\ LET mt == HeaderType(UsbReadN(MainTransferSize, st, data))
            IN IF MainReadyPanic(mt) = "none"
               THEN /\ pc' = "main_exec_request"
                    /\ cmd' = EXEC_MSM_HW_ID_READ
                    /\ UNCHANGED <<ret, panicMsg>>
               ELSE /\ Panic(MainReadyPanic(mt))
                    /\ UNCHANGED cmd
    /\ UNCHANGED <<op, version, arg, helloReq, helloRet, sm, execRet, out, opsDone>>
    /\ UNCHANGED claimVars

MainInfoSendExecRequest ==
    /\ pc = "main_exec_request"
    /\ \E st \in Outcomes : Send(ExecBytes(COMMAND_EXECUTE_REQUEST, cmd), st)
    /\ pc' = "main_exec_response"
    /\ UNCHANGED <<op, version, arg, cmd, buf, got, helloReq, helloRet, sm, execRet,
                   out, ret, panicMsg, opsDone>>
    /\ UNCHANGED claimVars

MainInfoReadExecResponse ==
    /\ pc = "main_exec_response"
    /\ \E st \in Outcomes, data \in DeviceReplies :
         /\ Len(data) <= MainTransferSize
         /\ Read(MainTransferSize, st, data)
         /\ IF HeaderType(UsbReadN(MainTransferSize, st, data)) = COMMAND_EXECUTE_RESPONSE
            THEN pc' = "main_exec_data" /\ UNCHANGED <<ret, panicMsg>>
            ELSE Panic("...")
    /\ UNCHANGED <<op, version, arg, cmd, helloReq, helloRet, sm, execRet, out, opsDone>>
    /\ UNCHANGED claimVars

MainInfoSendExecData ==
    /\ pc = "main_exec_data"
    /\ \E st \in Outcomes : Send(ExecBytes(COMMAND_EXECUTE_DATA, cmd), st)
    /\ pc' = "main_payload"
    /\ UNCHANGED <<op, version, arg, cmd, buf, got, helloReq, helloRet, sm, execRet,
                   out, ret, panicMsg, opsDone>>
    /\ UNCHANGED claimVars

\* main.rs info(): what it prints for the payload of command c.
MainInfoPrint(c, b) ==
    IF c = EXEC_MSM_HW_ID_READ
    THEN [kind |-> "MSM hardware ID", val |-> U32At(b, 4)]
    ELSE [kind |-> "Serial number", val |-> [k \in 1..8 |-> ByteAt(b, 8 - k)]]

MainInfoReadPayload ==
    /\ pc = "main_payload"
    /\ \E st \in Outcomes, data \in PayloadReplies :
         /\ Len(data) <= MainTransferSize
         /\ Read(MainTransferSize, st, data)
         /\ out' = Append(out, MainInfoPrint(cmd, UsbReadN(MainTransferSize, st, data)))
    /\ IF cmd = EXEC_MSM_HW_ID_READ
       THEN /\ cmd' = EXEC_SERIAL_NUM_READ
            /\ pc' = "main_exec_request"
            /\ UNCHANGED ret
       ELSE /\ pc' = "exited"
            /\ ret' = "Ok"
            /\ UNCHANGED cmd
    /\ UNCHANGED <<op, version, arg, helloReq, helloRet, sm, execRet, panicMsg, opsDone>>
    /\ UNCHANGED claimVars

(***************************************************************************)
(* switch_mode()                                                           *)
(***************************************************************************)
\* The mode the current operation passes to switch_mode.
SwitchModeArg ==
    CASE op = "read_mem" -> ModeMemoryDebug
      [] op = "end" -> ModeImageTxPending
      [] OTHER -> arg

SwitchModeSend ==
    /\ pc = "sm_send"
    /\ \E st \in Outcomes : Send(HelloResponseBytes(version, SwitchModeArg), st)
    /\ pc' = "sm_read"
    /\ UNCHANGED <<op, version, arg, cmd, buf, got, helloReq, helloRet, sm, execRet,
                   out, ret, panicMsg, opsDone>>
    /\ UNCHANGED claimVars

\* What switch_mode logs for the reply it read.
SwitchModeLog(b) ==
    (IF HeaderType(b) = SAHARA_END_OF_TRANSFER
     THEN <<[kind |-> "Mode switch failed with status", val |-> EotStatus(b)]>>
     ELSE <<>>)
    \o (IF HeaderType(b) # SAHARA_READY
        THEN <<[kind |-> "Mode switch failed, got message", val |-> HeaderType(b)]>>
        ELSE <<>>)

\* What switch_mode returns to its caller for a reply of type mt: the
\* function returns () on every path (the panic!() is commented out).
SwitchModeReturn(mt) == "Ok"

\* end() going straight to its read, the DoneRequest never sent.
AfterSwitchModeSkipsRequest(o) ==
    CASE o = "read_mem" -> "rm_send"
      [] o = "end" -> "end_read"
      [] OTHER -> "idle"

\* Where the caller of switch_mode goes on after it returned.
AfterSwitchMode(o) ==
    CASE o = "read_mem" -> "rm_send"
      [] o = "end" -> "end_send"
      [] OTHER -> "idle"

SwitchModeRead ==
    /\ pc = "sm_read"
    /\ \E st \in Outcomes, data \in DeviceReplies :
         /\ Len(data) <= TRANSFER_SIZE
         /\ Read(TRANSFER_SIZE, st, data)
         /\ LET b == UsbReadN(TRANSFER_SIZE, st, data)
                mt == HeaderType(b)
            IN /\ out' = out \o SwitchModeLog(b)
               /\ sm' = [mt |-> mt,
                         status |-> IF mt = SAHARA_END_OF_TRANSFER
                                    THEN EotStatus(b) ELSE -1,
                         ret |-> SwitchModeReturn(mt)]
    /\ IF AfterSwitchMode(op) = "idle"
       THEN Return
       ELSE /\ pc' = AfterSwitchMode(op)
            /\ UNCHANGED <<ret, panicMsg, opsDone>>
    /\ UNCHANGED <<op, version, arg, cmd, helloReq, helloRet, execRet>>
    /\ UNCHANGED claimVars

(***************************************************************************)
(* exec() and info()                                                       *)
(***************************************************************************)
ExecSendRequest ==
    /\ pc = "exec_req"
    /\ \E st \in Outcomes : Send(ExecBytes(SAHARA_EXECUTE_REQUEST, cmd), st)
    /\ pc' = "exec_read"
    /\ UNCHANGED <<op, version, arg, cmd, buf, got, helloReq, helloRet, sm, execRet,
                   out, ret, panicMsg, opsDone>>
    /\ UNCHANGED claimVars

\* exec checking only for END_OF_TRANSFER, the message-type check left out.
ExecPhaseOneNoTypeCheck(b) ==
    IF HeaderType(b) = SAHARA_END_OF_TRANSFER
    THEN [ok |-> FALSE, kind |-> "Command failed with status", val |-> EotStatus(b)]
    ELSE [ok |-> TRUE, kind |-> "proceed", val |-> 0]

\* exec reporting END_OF_TRANSFER as an unexpected message type.
ExecPhaseOneEotUnexpected(b) ==
    IF HeaderType(b) # SAHARA_EXECUTE_RESPONSE
    THEN [ok |-> FALSE, kind |-> "Unexpected message type", val |-> HeaderType(b)]
    ELSE [ok |-> TRUE, kind |-> "proceed", val |-> 0]

\* exec: the outcome of phase one for the reply read; "proceed" goes on to
\* the EXECUTE_DATA phase, anything else is the Err returned.
ExecPhaseOne(b) ==
    IF HeaderType(b) = SAHARA_END_OF_TRANSFER
    THEN [ok |-> FALSE, kind |-> "Command failed with status", val |-> EotStatus(b)]
    ELSE IF HeaderType(b) # SAHARA_EXECUTE_RESPONSE
         THEN [ok |-> FALSE, kind |-> "Unexpected message type", val |-> HeaderType(b)]
         ELSE [ok |-> TRUE, kind |-> "proceed", val |-> 0]

\* info going on to the payload read whatever exec returned.
ExecAfterPhaseOneIgnoresErr(r) == IF r.ok THEN "exec_data" ELSE "info_payload"

\* exec retrying the request after a reply it did not expect.
ExecAfterPhaseOneRetries(r) ==
    IF r.ok THEN "exec_data"
    ELSE IF r.kind = "Unexpected message type" THEN "exec_req" ELSE "info_unwrap"

\* exec: where it goes on after phase one: the data phase, or `return Err`.
ExecAfterPhaseOne(r) == IF r.ok THEN "exec_data" ELSE "info_unwrap"

ExecRead ==
    /\ pc = "exec_read"
    /\ \E st \in Outcomes, data \in DeviceReplies :
         /\ Len(data) <= TRANSFER_SIZE
         /\ Read(TRANSFER_SIZE, st, data)
         /\ LET r == ExecPhaseOne(UsbReadN(TRANSFER_SIZE, st, data))
            IN /\ pc' = ExecAfterPhaseOne(r)
               /\ execRet' = IF r.ok THEN execRet ELSE r
    /\ UNCHANGED <<op, version, arg, cmd, helloReq, helloRet, sm, out, ret,
                   panicMsg, opsDone>>
    /\ UNCHANGED claimVars

ExecSendData ==
    /\ pc = "exec_data"
    /\ \E st \in Outcomes : Send(ExecBytes(SAHARA_EXECUTE_DATA, cmd), st)
    /\ execRet' = [ok |-> TRUE, kind |-> "Ok", val |-> 0]
    /\ pc' = "info_unwrap"
    /\ UNCHANGED <<op, version, arg, cmd, buf, got, helloReq, helloRet, sm,
                   out, ret, panicMsg, opsDone>>
    /\ UNCHANGED claimVars

\* info: `exec(..).unwrap()`.
InfoUnwrap ==
    /\ pc = "info_unwrap"
    /\ IF execRet.ok
       THEN pc' = "info_payload" /\ UNCHANGED <<ret, panicMsg>>
       ELSE Panic(execRet.kind)
    /\ UNCHANGED protoVars
    /\ UNCHANGED claimVars

\* info with the version gate off by one (`version <= 3`).
InfoNextOffByOne(v, c) ==
    CASE c = GetSerialNum -> IF v <= 3 THEN GetHardwareId ELSE 0
      [] c = GetHardwareId -> GetOemPkHash
      [] OTHER -> 0

\* info: the command executed after command c, 0 when c was the last one.
InfoNext(v, c) ==
    CASE c = GetSerialNum -> IF v < 3 THEN GetHardwareId ELSE 0
      [] c = GetHardwareId -> GetOemPkHash
      [] OTHER -> 0

\* info printing the serial number with its bytes reversed.
InfoPrintSerialReversed(c, b) ==
    CASE c = GetSerialNum ->
           <<[kind |-> "Serial number", val |-> [k \in 1..8 |-> ByteAt(b, 8 - k)]]>>
      [] c = GetHardwareId ->
           <<[kind |-> "Hardware ID", val |-> U32At(b, 4)],
             [kind |-> "OEM", val |-> U16At(b, 0)],
             [kind |-> "Model", val |-> U16At(b, 2)]>>
      [] OTHER ->
           <<[kind |-> "OEM PK hashes", val |-> Slice(b, 0, 32)],
             [kind |-> "OEM PK hashes", val |-> Slice(b, 32, 32)],
             [kind |-> "OEM PK hashes", val |-> Slice(b, 64, 32)]>>

\* info: what is printed for the payload of command c.
InfoPrint(c, b) ==
    CASE c = GetSerialNum ->
           <<[kind |-> "Serial number", val |-> Slice(b, 0, 8)]>>
      [] c = GetHardwareId ->
           <<[kind |-> "Hardware ID", val |-> U32At(b, 4)],
             [kind |-> "OEM", val |-> U16At(b, 0)],
             [kind |-> "Model", val |-> U16At(b, 2)]>>
      [] OTHER ->
           <<[kind |-> "OEM PK hashes", val |-> Slice(b, 0, 32)],
             [kind |-> "OEM PK hashes", val |-> Slice(b, 32, 32)],
             [kind |-> "OEM PK hashes", val |-> Slice(b, 64, 32)]>>

InfoPayload ==
    /\ pc = "info_payload"
    /\ \E st \in Outcomes, data \in PayloadReplies :
         /\ Len(data) <= TRANSFER_SIZE
         /\ Read(TRANSFER_SIZE, st, data)
         /\ out' = out \o InfoPrint(cmd, UsbReadN(TRANSFER_SIZE, st, data))
    /\ LET n == InfoNext(version, cmd)
       IN IF n = 0
          THEN Return /\ UNCHANGED cmd
          ELSE /\ cmd' = n
               /\ pc' = "exec_req"
               /\ UNCHANGED <<ret, panicMsg, opsDone>>
    /\ UNCHANGED <<op, version, arg, helloReq, helloRet, sm, execRet>>
    /\ UNCHANGED claimVars

(***************************************************************************)
(* read_mem(), reset(), end()                                              *)
(***************************************************************************)
ReadMemSend ==
    /\ pc = "rm_send"
    /\ \E st \in Outcomes : Send(MemoryRead32Bytes(arg, MemReadLen), st)
    /\ pc' = "rm_read"
    /\ UNCHANGED <<op, version, arg, cmd, buf, got, helloReq, helloRet, sm, execRet,
                   out, ret, panicMsg, opsDone>>
    /\ UNCHANGED claimVars

\* read_mem: how it ends for the buffer read: "panic" or "Ok".
ReadMemResult(b) ==
    IF HeaderType(b) = SAHARA_END_OF_TRANSFER THEN "panic" ELSE "Ok"

\* read_mem reading with usb_read, the default transfer size.
ReadMemReadSizeDefault == TRANSFER_SIZE

\* read_mem: the size it asks usb_read_n for (`size as usize`).
ReadMemReadSize == MemReadLen

ReadMemRead ==
    /\ pc = "rm_read"
    /\ \E st \in Outcomes, data \in DeviceReplies :
         /\ Len(data) <= ReadMemReadSize
         /\ Read(ReadMemReadSize, st, data)
         /\ LET b == UsbReadN(ReadMemReadSize, st, data)
            IN IF ReadMemResult(b) = "panic"
               THEN /\ Panic("Reading memory failed with status")
                    /\ out' = Append(out, [kind |-> "Reading memory failed with status",
                                           val |-> EotStatus(b)])
                    /\ UNCHANGED opsDone
               ELSE /\ out' = Append(out, [kind |-> "mem", val |-> Slice(b, 0, MemReadLen)])
                    /\ Return
    /\ UNCHANGED <<op, version, arg, cmd, helloReq, helloRet, sm, execRet>>
    /\ UNCHANGED claimVars

ResetSend ==
    /\ pc = "reset_send"
    /\ \E st \in Outcomes : Send(ResetRequestBytes, st)
    /\ pc' = "reset_read"
    /\ UNCHANGED <<op, version, arg, cmd, buf, got, helloReq, helloRet, sm, execRet,
                   out, ret, panicMsg, opsDone>>
    /\ UNCHANGED claimVars

\* reset() treating everything but RESET_RESPONSE as fatal.
ResetResultStrict(b) ==
    IF HeaderType(b) = SAHARA_RESET_RESPONSE THEN "Reset successful" ELSE "panic"

\* reset: how it ends for the reply read: "panic" or the line it logs.
ResetResult(b) ==
    CASE HeaderType(b) = SAHARA_END_OF_TRANSFER -> "panic"
      [] HeaderType(b) = SAHARA_RESET_RESPONSE -> "Reset successful"
      [] OTHER -> "Reset got unexpected response"

ResetRead ==
    /\ pc = "reset_read"
    /\ \E st \in Outcomes, data \in DeviceReplies :
         /\ Len(data) <= TRANSFER_SIZE
         /\ Read(TRANSFER_SIZE, st, data)
         /\ LET b == UsbReadN(TRANSFER_SIZE, st, data)
                mt == HeaderType(b)
            IN IF ResetResult(b) = "panic"
               THEN /\ Panic("Reset failed with status")
                    /\ out' = Append(out, [kind |-> "Reset failed with status",
                                           val |-> EotStatus(b)])
                    /\ UNCHANGED opsDone
               ELSE /\ out' = Append(out, [kind |-> ResetResult(b), val |-> mt])
                    /\ Return
    /\ UNCHANGED <<op, version, arg, cmd, helloReq, helloRet, sm, execRet>>
    /\ UNCHANGED claimVars

EndSend ==
    /\ pc = "end_send"
    /\ \E st \in Outcomes : Send(DoneRequestBytes, st)
    /\ pc' = "end_read"
    /\ UNCHANGED <<op, version, arg, cmd, buf, got, helloReq, helloRet, sm, execRet,
                   out, ret, panicMsg, opsDone>>
    /\ UNCHANGED claimVars

\* end() treating everything but DONE_RESPONSE as fatal.
EndResultStrict(b) ==
    IF HeaderType(b) = SAHARA_DONE_RESPONSE THEN "done" ELSE "panic"

\* end: how it ends for the reply read.
EndResult(b) ==
    CASE HeaderType(b) = SAHARA_END_OF_TRANSFER -> "panic"
      [] HeaderType(b) = SAHARA_DONE_RESPONSE -> "done"
      [] OTHER -> "other"

EndRead ==
    /\ pc = "end_read"
    /\ \E st \in Outcomes, data \in DeviceReplies :
         /\ Len(data) <= TRANSFER_SIZE
         /\ Read(TRANSFER_SIZE, st, data)
         /\ LET b == UsbReadN(TRANSFER_SIZE, st, data)
                mt == HeaderType(b)
            IN IF EndResult(b) = "panic"
               THEN /\ Panic("Done failed with status")
                    /\ out' = Append(out, [kind |-> "Done failed with status",
                                           val |-> EotStatus(b)])
                    /\ UNCHANGED opsDone
               ELSE /\ out' = out
                          \o (IF EndResult(b) = "done"
                              THEN <<[kind |-> "Got done response", val |-> mt]>>
                              ELSE <<>>)
                          \o <<[kind |-> "Got", val |-> mt]>>
                    /\ Return
    /\ UNCHANGED <<op, version, arg, cmd, helloReq, helloRet, sm, execRet>>
    /\ UNCHANGED claimVars

Next ==
    \/ MainHello
    \/ MainMatch
    \/ MainInfoSendHelloResponse
    \/ MainInfoReadReady
    \/ MainInfoSendExecRequest
    \/ MainInfoReadExecResponse
    \/ MainInfoSendExecData
    \/ MainInfoReadPayload
    \/ Connect
    \/ ClaimCheck
    \/ ClaimTry
    \/ ConnectUnwrap
    \/ Hello
    \/ CallSwitchMode
    \/ CallInfo
    \/ CallReadMem
    \/ CallReset
    \/ CallEnd
    \/ SwitchModeSend
    \/ SwitchModeRead
    \/ ExecSendRequest
    \/ ExecRead
    \/ ExecSendData
    \/ InfoUnwrap
    \/ InfoPayload
    \/ ReadMemSend
    \/ ReadMemRead
    \/ ResetSend
    \/ ResetRead
    \/ EndSend
    \/ EndRead

Spec == Init /\ [][Next]_vars

(***************************************************************************)
(* Reading the transfer log.                                               *)
(***************************************************************************)
\* A log entry as a buffer: a written packet, or the Vec a read returned.
LogBuf(e) == [size |-> e.size, data |-> e.bytes]

IsWrite(e) == e.dir = "w"
IsRead(e) == e.dir = "r"

\* Whether log entry e is a written packet of message type mt.
Wrote(e, mt) == IsWrite(e) /\ HeaderType(LogBuf(e)) = mt

\* The `command` field of a written Exec packet.
ExecCommand(e) == U32At(LogBuf(e), 8)

\* The commands of the EXECUTE_REQUEST packets written, in order.
RequestedCommands ==
    LET reqs == SelectSeq(log, LAMBDA e : Wrote(e, SAHARA_EXECUTE_REQUEST))
    IN [k \in 1..Len(reqs) |-> ExecCommand(reqs[k])]

IsPrefix(a, b) == Len(a) <= Len(b) /\ \A k \in 1..Len(a) : a[k] = b[k]

Writes == SelectSeq(log, IsWrite)
Reads == SelectSeq(log, IsRead)

\* The transfers of the exec call in progress or just returned: the log from
\* the last EXECUTE_REQUEST written.
ExecTransfers ==
    LET starts == {k \in 1..Len(log) : Wrote(log[k], SAHARA_EXECUTE_REQUEST)}
        first == CHOOSE k \in starts : \A j \in starts : j <= k
    IN IF starts = {} THEN <<>> ELSE SubSeq(log, first, Len(log))

(***************************************************************************)
(* C1: exec writes the EXECUTE_DATA packet only after it read a reply of   *)
(* type EXECUTE_RESPONSE to its EXECUTE_REQUEST for the same command; when *)
(* exec returns Err (END_OF_TRANSFER or any other type) it has made        *)
(* exactly one write and one read, and no second packet was sent.          *)
(***************************************************************************)
C1_DataPhaseOnlyAfterResponse ==
    /\ \A k \in 1..Len(log) :
         Wrote(log[k], SAHARA_EXECUTE_DATA) =>
            /\ k >= 3
            /\ IsRead(log[k - 1])
            /\ HeaderType(LogBuf(log[k - 1])) = SAHARA_EXECUTE_RESPONSE
            /\ Wrote(log[k - 2], SAHARA_EXECUTE_REQUEST)
            /\ ExecCommand(log[k - 2]) = ExecCommand(log[k])
    /\ (op = "info" /\ ~execRet.ok) =>
            /\ Len(ExecTransfers) = 2
            /\ Wrote(ExecTransfers[1], SAHARA_EXECUTE_REQUEST)
            /\ IsRead(ExecTransfers[2])
            /\ HeaderType(LogBuf(ExecTransfers[2])) # SAHARA_EXECUTE_RESPONSE
    /\ (pc = "exec_data") =>
            HeaderType(LogBuf(log[Len(log)])) = SAHARA_EXECUTE_RESPONSE

\* The second exec of an info() returned Err on an END_OF_TRANSFER reply,
\* after the first one went through both phases.
C1_Witness ==
    /\ op = "info"
    /\ pc = "info_unwrap"
    /\ ~execRet.ok
    /\ execRet.kind = "Command failed with status"
    /\ cmd = GetHardwareId
    /\ Len(log) = 6
    /\ firstFail = "none"

(***************************************************************************)
(* C2: info(version) requests GetSerialNum only when version >= 3, and     *)
(* GetSerialNum, GetHardwareId, GetOemPkHash in that order when            *)
(* version < 3; at every moment the commands requested so far are a prefix *)
(* of that list, and all of it once info has returned.                     *)
(***************************************************************************)
InfoCommands(v) ==
    IF v >= 3 THEN <<GetSerialNum>> ELSE <<GetSerialNum, GetHardwareId, GetOemPkHash>>

C2_InfoVersionGate ==
    op = "info" =>
        /\ IsPrefix(RequestedCommands, InfoCommands(version))
        /\ (pc = "idle" /\ ret = "Ok") => RequestedCommands = InfoCommands(version)

\* info(3) returned after a single command.
C2_Witness ==
    /\ op = "info"
    /\ version = 3
    /\ pc = "idle"
    /\ ret = "Ok"
    /\ RequestedCommands = <<GetSerialNum>>
    /\ Len(log) = 4
    /\ firstFail = "none"

(***************************************************************************)
(* C3: switch_mode returns a failure when the reply is END_OF_TRANSFER     *)
(* (ModeSwitchFailed) or of any type other than READY (UnexpectedMessage), *)
(* and success only when the reply is of type READY.                       *)
(***************************************************************************)
C3_SwitchModeReportsFailure ==
    sm.ret # "none" =>
        /\ (sm.mt = SAHARA_END_OF_TRANSFER => sm.ret = "ModeSwitchFailed")
        /\ (sm.mt \notin {SAHARA_END_OF_TRANSFER, SAHARA_READY}
                => sm.ret = "UnexpectedMessage")
        /\ (sm.ret = "Ok" => sm.mt = SAHARA_READY)

(***************************************************************************)
(* C4: after a switch_mode whose reply was END_OF_TRANSFER the operation   *)
(* sends nothing more: read_mem writes no MemoryRead32 and end writes no   *)
(* DoneRequest (every transfer having completed).                          *)
(***************************************************************************)
C4_NoRequestAfterFailedModeSwitch ==
    (op \in {"read_mem", "end"} /\ sm.mt = SAHARA_END_OF_TRANSFER /\ firstFail = "none") =>
        /\ Len(Writes) = 1
        /\ \A k \in 1..Len(log) :
             ~Wrote(log[k], SAHARA_MEMORY_READ) /\ ~Wrote(log[k], SAHARA_DONE_REQUEST)

(***************************************************************************)
(* C5: hello() makes exactly one read and no write; it fails for every     *)
(* first packet whose message type is not HELLO_REQUEST and succeeds only  *)
(* when it is.                                                             *)
(***************************************************************************)
C5_HelloRejectsOtherTypes ==
    op = "hello" =>
        /\ Len(log) = 1
        /\ IsRead(log[1])
        /\ log[1].size = TRANSFER_SIZE
        /\ helloReq.mt = HeaderType(LogBuf(log[1]))
        /\ (helloReq.mt # SAHARA_HELLO_REQUEST => pc = "panicked" /\ ret = "panic")
        /\ (helloReq.mt = SAHARA_HELLO_REQUEST => pc = "idle" /\ ret = "Ok")

\* hello() panicked on a first packet of type READY.
C5_Witness ==
    /\ op = "hello"
    /\ pc = "panicked"
    /\ helloReq.mt = SAHARA_READY

(***************************************************************************)
(* C6: on success hello() returns both the version and the mode of the     *)
(* device's HelloRequest, and the version that gates the commands of the   *)
(* session is that device-reported version.                                *)
(***************************************************************************)
C6_HelloReturnsVersionAndMode ==
    /\ (helloRet # NoRet) =>
            /\ "mode" \in DOMAIN helloRet
            /\ helloRet.mode = helloReq.mode
            /\ "version" \in DOMAIN helloRet
            /\ helloRet.version = helloReq.version
    /\ (op = "info") => version = helloReq.version

(***************************************************************************)
(* C7: when a bulk transfer times out or fails, the operation that issued  *)
(* it ends with a Timeout or TransportError: it makes no further transfer  *)
(* and does not go on with the zero-filled buffer or the next step.        *)
(***************************************************************************)
C7_TransferFailureEndsOperation ==
    firstFail # "none" =>
        /\ ~afterFail
        /\ ret = (IF firstFail = "timeout" THEN "Timeout" ELSE "TransportError")

(***************************************************************************)
(* C8: the session is half-duplex: the first bulk transfer is the read of  *)
(* hello, never two writes follow each other without a read between them,  *)
(* and every later read directly follows a write.                          *)
(***************************************************************************)
C8_HalfDuplex ==
    /\ recent # <<"w", "w">>
    /\ recent # <<"r", "r">>
    /\ recent # <<"w">>
    /\ (recent = <<"r">> => helloReq # NoHello /\ Len(Writes) = 0)
    /\ (op # "hello" /\ pc = "idle") => recent = <<"w", "r">>

\* A second public operation, an info(), returned.
C8_Witness ==
    /\ opsDone = 2
    /\ op = "info"
    /\ version = 2
    /\ ret = "Ok"
    /\ recent = <<"w", "r">>
    /\ firstFail = "none"

(***************************************************************************)
(* C9: claim_interface returns at the first successful attempt; when every *)
(* attempt fails it gives up once the deadline has passed, and the session *)
(* then reports ClaimInterfaceTimeout without panicking.                   *)
(***************************************************************************)
C9_ClaimTimeoutReportedWithoutPanic ==
    /\ (claimRet = "Ok" /\ pc = "claim_ret") => attempts >= 1
    /\ (claimRet = "Err") => elapsed > CLAIM_INTERFACE_TIMEOUT \/ pc # "claim_ret"
    /\ (claimRet = "Err" /\ pc # "claim_ret") =>
            /\ pc # "panicked"
            /\ panicMsg = "none"
            /\ ret = "ClaimInterfaceTimeout"

(***************************************************************************)
(* C10: read_mem flags a short reply: when the device returned fewer bytes *)
(* than requested and the reply is not an END_OF_TRANSFER, read_mem does   *)
(* not return the zero-padded buffer as memory contents (every transfer    *)
(* having completed).                                                      *)
(***************************************************************************)
C10_ShortReadFlagged ==
    (/\ op = "read_mem"
     /\ Len(log) = 4
     /\ firstFail = "none"
     /\ got >= 0
     /\ got < MemReadLen
     /\ HeaderType(buf) # SAHARA_END_OF_TRANSFER) =>
        /\ ret = "IncompleteRead"
        /\ \A k \in 1..Len(out) : out[k].kind # "mem"

(***************************************************************************)
(* C11: when an exec issued by info() fails on an END_OF_TRANSFER reply,   *)
(* info() skips that command and goes on with the remaining ones instead   *)
(* of aborting (every transfer having completed).                          *)
(***************************************************************************)
C11_InfoSkipsFailedCommand ==
    (/\ op = "info"
     /\ firstFail = "none"
     /\ ~execRet.ok
     /\ execRet.kind = "Command failed with status"
     /\ pc # "info_unwrap") =>
        /\ pc # "panicked"
        /\ ret # "panic"

(***************************************************************************)
(* C12: no protocol exchange is retried: within one public operation no    *)
(* request packet is written twice, whatever the replies were, and after   *)
(* an exec returned Err nothing more is written.                           *)
(***************************************************************************)
C12_NoExchangeRetried ==
    /\ \A j \in 1..Len(Writes) : \A k \in 1..Len(Writes) :
            j # k => Writes[j].bytes # Writes[k].bytes
    /\ (op = "info" /\ ~execRet.ok) => IsRead(log[Len(log)])

\* info(2) ended on an unexpected reply to its second request, each of the
\* three packets written so far written once.
C12_Witness ==
    /\ op = "info"
    /\ pc = "panicked"
    /\ execRet.kind = "Unexpected message type"
    /\ Len(Writes) = 3
    /\ Len(log) = 6

(***************************************************************************)
(* C13: a received packet whose header length field differs from the       *)
(* encoded size of the packet type its message_type names is rejected as   *)
(* malformed, never accepted: hello accepts a HelloRequest only of length  *)
(* 24, switch_mode a READY only of length 8, reset a RESET_RESPONSE only   *)
(* of length 8 and end a DONE_RESPONSE only of length 12.                  *)
(***************************************************************************)
\* The last entry of the log, as a buffer.
LastReply == LogBuf(log[Len(log)])

C13_LengthMismatchRejected ==
    /\ (op = "hello" /\ ret = "Ok") => HeaderLength(LastReply) = 24
    /\ (op = "switch_mode" /\ pc = "idle" /\ sm.mt = SAHARA_READY
            /\ HeaderLength(LastReply) # 8) =>
                \/ ret # "Ok"
                \/ \E k \in 1..Len(out) : out[k].kind = "Mode switch failed, got message"
    /\ (op = "reset" /\ pc = "idle" /\ ret = "Ok"
            /\ HeaderType(LastReply) = SAHARA_RESET_RESPONSE) =>
                HeaderLength(LastReply) = 8
    /\ (op = "end" /\ pc = "idle" /\ ret = "Ok"
            /\ HeaderType(LastReply) = SAHARA_DONE_RESPONSE) =>
                HeaderLength(LastReply) = 12

(***************************************************************************)
(* C14: for every packet the host writes, the number of bytes written      *)
(* equals the packet's header length field, and that value is fixed by the *)
(* packet type: 0x30 for HelloResponse, 0xC for Exec (both phases), 0x10   *)
(* for MemoryRead32, 0x8 for ResetRequest and 0x8 for DoneRequest.         *)
(***************************************************************************)
SentLength(mt) ==
    CASE mt = SAHARA_HELLO_RESPONSE -> 48
      [] mt \in {SAHARA_EXECUTE_REQUEST, SAHARA_EXECUTE_DATA} -> 12
      [] mt = SAHARA_MEMORY_READ -> 16
      [] mt \in {SAHARA_RESET_REQUEST, SAHARA_DONE_REQUEST} -> 8
      [] OTHER -> -1

C14_WrittenLengthIsHeaderLength ==
    \A k \in 1..Len(Writes) :
        /\ Len(Writes[k].bytes) = HeaderLength(LogBuf(Writes[k]))
        /\ HeaderLength(LogBuf(Writes[k])) = SentLength(HeaderType(LogBuf(Writes[k])))

\* end() has written its HelloResponse and its DoneRequest.
C14_Witness ==
    /\ op = "end"
    /\ Len(Writes) = 2
    /\ Len(Writes[1].bytes) = 48
    /\ Len(Writes[2].bytes) = 8

(***************************************************************************)
(* C15: the serial number info() reports is the first 8 bytes, in wire     *)
(* order, of the payload read that follows the EXECUTE_DATA write for      *)
(* GetSerialNum; for the payload DE AD BE EF 00 11 22 33 it is exactly     *)
(* DEADBEEF00112233.                                                       *)
(***************************************************************************)
C15_SerialIsPayloadPrefix ==
    (op = "info" /\ Len(log) >= 4) =>
        /\ Wrote(log[3], SAHARA_EXECUTE_DATA)
        /\ ExecCommand(log[3]) = GetSerialNum
        /\ IsRead(log[4])
        /\ Len(out) >= 1
        /\ out[1].kind = "Serial number"
        /\ out[1].val = [k \in 1..8 |-> ByteAt(LogBuf(log[4]), k - 1)]
        /\ (log[4].bytes = <<222, 173, 190, 239, 0, 17, 34, 51>>
                => out[1].val = <<222, 173, 190, 239, 0, 17, 34, 51>>)

\* Scenario A: HelloRequest{version 2, mode 0}, an operation before info,
\* and the payload DE AD BE EF 00 11 22 33 reported.
C15_Witness ==
    /\ op = "info"
    /\ helloReq.version = 2
    /\ helloReq.mode = 0
    /\ opsDone >= 1
    /\ firstFail = "none"
    /\ Len(log) = 4
    /\ log[4].bytes = SerialPayload
    /\ out = <<[kind |-> "Serial number", val |-> <<222, 173, 190, 239, 0, 17, 34, 51>>]>>

(***************************************************************************)
(* C16: for every packet type and every combination of field values,       *)
(* decoding the encoding of a packet yields the same packet, and the       *)
(* encoding starts with message_type then length, little-endian, in its    *)
(* first 8 bytes.                                                          *)
(***************************************************************************)
C16_RoundTrip ==
    /\ codec.stage \in {"encoded", "decoded"} =>
        /\ Len(codec.bytes) >= 8
        /\ [k \in 1..4 |-> codec.bytes[k]] = U32Bytes(codec.p.header.message_type)
        /\ [k \in 1..4 |-> codec.bytes[k + 4]] = U32Bytes(codec.p.header.length)
        /\ codec.bytes[1] = codec.p.header.message_type % 256
        /\ codec.bytes[5] = codec.p.header.length % 256
    /\ codec.stage = "decoded" => codec.decoded = codec.p

\* A HelloRequest whose fields have four different bytes went through.
C16_Witness ==
    /\ codec.stage = "decoded"
    /\ codec.p.type = "HelloRequest"
    /\ codec.p.header.message_type = 1
    /\ codec.p.fields = <<258, 16909060, 2147483647, 0>>
    /\ codec.decoded.fields[2] = 16909060
    /\ [k \in 1..4 |-> codec.bytes[k + 12]] = <<4, 3, 2, 1>>

\* The last line the operation printed or logged.
LastOut == out[Len(out)]

(***************************************************************************)
(* C17: reset() writes one ResetRequest and reads one reply, then: an      *)
(* END_OF_TRANSFER reply panics with the status decoded from that packet,  *)
(* RESET_RESPONSE is logged as success, any other type is logged as        *)
(* unexpected and reset() returns normally; no transfer follows the read.  *)
(***************************************************************************)
C17_ResetClassifiesReply ==
    op = "reset" =>
        /\ pc \in {"reset_send", "reset_read", "idle", "panicked"}
        /\ Len(log) = (CASE pc = "reset_send" -> 0 [] pc = "reset_read" -> 1 [] OTHER -> 2)
        /\ Len(log) >= 1 => IsWrite(log[1]) /\ log[1].bytes = ResetRequestBytes
        /\ Len(log) = 2 =>
            /\ IsRead(log[2])
            /\ LET b == LogBuf(log[2])
                   mt == HeaderType(b)
               IN /\ mt = SAHARA_END_OF_TRANSFER =>
                        /\ pc = "panicked" /\ ret = "panic"
                        /\ panicMsg = "Reset failed with status"
                        /\ LastOut.val = U32At(b, 12)
                  /\ mt = SAHARA_RESET_RESPONSE =>
                        /\ pc = "idle" /\ ret = "Ok"
                        /\ LastOut.kind = "Reset successful"
                  /\ mt \notin {SAHARA_END_OF_TRANSFER, SAHARA_RESET_RESPONSE} =>
                        /\ pc = "idle" /\ ret = "Ok"
                        /\ LastOut.kind = "Reset got unexpected response"

\* reset() got a READY packet for its ResetRequest and returned normally.
C17_Witness ==
    /\ op = "reset"
    /\ pc = "idle"
    /\ ret = "Ok"
    /\ firstFail = "none"
    /\ Len(log) = 2
    /\ HeaderType(LogBuf(log[2])) = SAHARA_READY
    /\ LastOut.kind = "Reset got unexpected response"

(***************************************************************************)
(* C18: end() writes HelloResponse with mode ImageTxPending, reads the     *)
(* mode-switch reply, writes one DoneRequest and reads one reply, in that  *)
(* order; an END_OF_TRANSFER reply to DoneRequest panics, DONE_RESPONSE is *)
(* logged as done, and after any other type end() returns normally.        *)
(***************************************************************************)
C18_EndOrder ==
    op = "end" =>
        /\ Len(log) = (CASE pc = "sm_send" -> 0 [] pc = "sm_read" -> 1
                         [] pc = "end_send" -> 2 [] pc = "end_read" -> 3
                         [] OTHER -> 4)
        /\ pc \in {"sm_send", "sm_read", "end_send", "end_read", "idle", "panicked"}
        /\ Len(log) >= 1 =>
              /\ IsWrite(log[1])
              /\ log[1].bytes = HelloResponseBytes(version, ModeImageTxPending)
              /\ U32At(LogBuf(log[1]), 20) = ModeImageTxPending
        /\ Len(log) >= 2 => IsRead(log[2])
        /\ Len(log) >= 3 => IsWrite(log[3]) /\ log[3].bytes = DoneRequestBytes
        /\ Len(log) = 4 =>
            /\ IsRead(log[4])
            /\ LET mt == HeaderType(LogBuf(log[4]))
               IN /\ mt = SAHARA_END_OF_TRANSFER =>
                        /\ pc = "panicked" /\ ret = "panic"
                        /\ panicMsg = "Done failed with status"
                  /\ mt = SAHARA_DONE_RESPONSE =>
                        /\ pc = "idle" /\ ret = "Ok"
                        /\ \E k \in 1..Len(out) : out[k].kind = "Got done response"
                  /\ mt \notin {SAHARA_END_OF_TRANSFER, SAHARA_DONE_RESPONSE} =>
                        /\ pc = "idle" /\ ret = "Ok"
                        /\ \A k \in 1..Len(out) : out[k].kind # "Got done response"

\* end() got READY for the mode switch, then a RESET_RESPONSE for its
\* DoneRequest, and returned normally.
C18_Witness ==
    /\ op = "end"
    /\ pc = "idle"
    /\ ret = "Ok"
    /\ firstFail = "none"
    /\ Len(log) = 4
    /\ HeaderType(LogBuf(log[2])) = SAHARA_READY
    /\ HeaderType(LogBuf(log[4])) = SAHARA_RESET_RESPONSE
    /\ LastOut.kind = "Got"

(***************************************************************************)
(* C19: read_mem(address) writes HelloResponse with mode MemoryDebug,      *)
(* reads the mode-switch reply, writes one MemoryRead32 with the caller's  *)
(* address and the fixed size, then issues one read of exactly that many   *)
(* bytes, not of the default transfer size.                                *)
(***************************************************************************)
C19_ReadMemOrderAndSize ==
    op = "read_mem" =>
        /\ Len(log) = (CASE pc = "sm_send" -> 0 [] pc = "sm_read" -> 1
                         [] pc = "rm_send" -> 2 [] pc = "rm_read" -> 3
                         [] OTHER -> 4)
        /\ pc \in {"sm_send", "sm_read", "rm_send", "rm_read", "idle", "panicked"}
        /\ Len(log) >= 1 =>
              /\ IsWrite(log[1])
              /\ log[1].bytes = HelloResponseBytes(version, ModeMemoryDebug)
        /\ Len(log) >= 2 => IsRead(log[2])
        /\ Len(log) >= 3 =>
              /\ Wrote(log[3], SAHARA_MEMORY_READ)
              /\ Len(log[3].bytes) = MEMORY_READ_SIZE
              /\ U32At(LogBuf(log[3]), 8) = arg
              /\ U32At(LogBuf(log[3]), 12) = MemReadLen
        /\ Len(log) = 4 =>
              /\ IsRead(log[4])
              /\ log[4].size = U32At(LogBuf(log[3]), 12)
              /\ log[4].size # TRANSFER_SIZE

\* read_mem(0x10000) returned after the device answered its 16-byte read.
C19_Witness ==
    /\ op = "read_mem"
    /\ arg = 65536
    /\ pc = "idle"
    /\ firstFail = "none"
    /\ Len(log) = 4
    /\ log[4].size = 16
    /\ log[4].bytes = ShortPayload
    /\ LastOut.kind = "mem"
    /\ U32At(LogBuf(log[3]), 8) = 65536

(***************************************************************************)
(* C20: the first bulk transfer after connect is the read hello() makes,   *)
(* and nothing is written to the device unless that read returned a        *)
(* HELLO_REQUEST that hello() accepted.                                    *)
(***************************************************************************)
C20_HostPassiveBootstrap ==
    /\ pc \in {"connect", "claim_check", "claim_try", "claim_ret", "hello"} =>
          /\ recent = <<>>
          /\ log = <<>>
          /\ helloReq = NoHello
    /\ recent # <<>> => helloReq # NoHello
    /\ op \in {"hello", "main_hello"} => Len(log) = 1 /\ IsRead(log[1])
    /\ (/\ "w" \in {recent[k] : k \in 1..Len(recent)} \/ Len(Writes) > 0
        /\ helloReq.mt # 0) =>
          helloReq.mt = SAHARA_HELLO_REQUEST

\* info: the payload read for GetHardwareId, the 8th transfer of info.
HwIdReply == LogBuf(log[8])

(***************************************************************************)
(* C21: of the GetHardwareId payload, info reports bytes 0-1 as the model, *)
(* bytes 2-3 as the OEM and bytes 4-7 as the hardware ID: each label       *)
(* carries the field of the same name.                                     *)
(***************************************************************************)
C21_HardwareIdLabels ==
    (op = "info" /\ Len(log) >= 8 /\ firstFail = "none" /\ Len(log[8].bytes) = 8) =>
        /\ Len(out) >= 4
        /\ \A k \in 1..Len(out) :
              /\ out[k].kind = "Hardware ID" => out[k].val = U32At(HwIdReply, 4)
              /\ out[k].kind = "Model" => out[k].val = U16At(HwIdReply, 0)
              /\ out[k].kind = "OEM" => out[k].val = U16At(HwIdReply, 2)

(***************************************************************************)
(* C22: when exec has returned, Ok means it wrote EXECUTE_REQUEST, read    *)
(* one reply and wrote EXECUTE_DATA with the same command, both of length  *)
(* 0xC; Err means one write and one read; an END_OF_TRANSFER reply gives   *)
(* the command-failed error with that packet's status, never the           *)
(* unexpected-message one.                                                 *)
(***************************************************************************)
C22_ExecOkIffBothWritten ==
    (op = "info" /\ pc = "info_unwrap") =>
        LET t == ExecTransfers
        IN /\ Len(t) \in {2, 3}
           /\ execRet.ok <=> Len(t) = 3
           /\ Wrote(t[1], SAHARA_EXECUTE_REQUEST)
           /\ HeaderLength(LogBuf(t[1])) = EXEC_SIZE
           /\ ExecCommand(t[1]) = cmd
           /\ IsRead(t[2])
           /\ Len(t) = 3 =>
                 /\ Wrote(t[3], SAHARA_EXECUTE_DATA)
                 /\ HeaderLength(LogBuf(t[3])) = EXEC_SIZE
                 /\ ExecCommand(t[3]) = ExecCommand(t[1])
           /\ HeaderType(LogBuf(t[2])) = SAHARA_END_OF_TRANSFER =>
                 /\ ~execRet.ok
                 /\ execRet.kind = "Command failed with status"
                 /\ execRet.val = U32At(LogBuf(t[2]), 12)
           /\ execRet.kind = "Unexpected message type" =>
                 /\ HeaderType(LogBuf(t[2])) # SAHARA_END_OF_TRANSFER
                 /\ HeaderType(LogBuf(t[2])) # SAHARA_EXECUTE_RESPONSE

\* The second exec of an info() returned Err for an EndOfTransfer with
\* status 6.
C22_Witness ==
    /\ op = "info"
    /\ pc = "info_unwrap"
    /\ cmd = GetHardwareId
    /\ firstFail = "none"
    /\ Len(log) = 6
    /\ ~execRet.ok
    /\ execRet.kind = "Command failed with status"
    /\ execRet.val = 6

(***************************************************************************)
(* C23: in info() every payload read directly follows an exec that         *)
(* returned Ok for the command the payload is decoded for, and after an    *)
(* exec that returned Err info makes no further read or write.             *)
(***************************************************************************)
C23_PayloadReadOnlyAfterExecOk ==
    op = "info" =>
        /\ \A k \in 1..Len(log) :
              (IsRead(log[k]) /\ k > 1 /\ ~Wrote(log[k - 1], SAHARA_EXECUTE_REQUEST)) =>
                  /\ k % 4 = 0
                  /\ Wrote(log[k - 1], SAHARA_EXECUTE_DATA)
                  /\ HeaderType(LogBuf(log[k - 2])) = SAHARA_EXECUTE_RESPONSE
                  /\ Wrote(log[k - 3], SAHARA_EXECUTE_REQUEST)
                  /\ ExecCommand(log[k - 1]) = InfoCommands(version)[k \div 4]
                  /\ ExecCommand(log[k - 3]) = InfoCommands(version)[k \div 4]
        /\ (Len(log) >= 1 => IsWrite(log[1]))
        /\ ~execRet.ok =>
              /\ pc \in {"info_unwrap", "panicked"}
              /\ Len(log) % 4 = 2
              /\ IsRead(log[Len(log)])
              /\ Wrote(log[Len(log) - 1], SAHARA_EXECUTE_REQUEST)

\* info(version 2) read the GetHardwareId payload, then its third exec
\* returned Err and info ended there.
C23_Witness ==
    /\ op = "info"
    /\ version = 2
    /\ pc = "panicked"
    /\ firstFail = "none"
    /\ Len(log) = 10
    /\ log[8].bytes = HwIdPayload
    /\ ~execRet.ok
    /\ cmd = GetOemPkHash

\* Whether the bytes are an EndOfTransfer packet: type 4 under length 0x10.
IsEndOfTransferPacket(bytes) ==
    /\ Len(bytes) = 16
    /\ HeaderType([size |-> 16, data |-> bytes]) = SAHARA_END_OF_TRANSFER
    /\ HeaderLength([size |-> 16, data |-> bytes]) = 16

(***************************************************************************)
(* C24: read_mem reports a device failure only when the device replied     *)
(* with an EndOfTransfer packet; when the device returned the 16 bytes of  *)
(* memory data read_mem completes, whatever those bytes are.               *)
(***************************************************************************)
C24_ReadMemFailsOnlyOnEndOfTransfer ==
    (/\ op = "read_mem"
     /\ Len(log) = 4
     /\ firstFail = "none"
     /\ HeaderType(LogBuf(log[2])) = SAHARA_READY
     /\ Len(log[4].bytes) = MemReadLen
     /\ ~IsEndOfTransferPacket(log[4].bytes)) =>
        /\ pc # "panicked"
        /\ ret # "panic"
        /\ \A k \in 1..Len(out) : out[k].kind # "Reading memory failed with status"

====
